---------------------------- MODULE Spec2Model ----------------------------
(***************************************************************************)
(* A model of napari-stream: the ZeroMQ listener (ZMQImageListener), the   *)
(* wire codec (_send_numpy / _from_bytes) and the sender's traversal of    *)
(* nested structures (StreamSender.send / retrieve_array_like).            *)
(***************************************************************************)
EXTENDS Integers, Sequences, FiniteSets, TLC

(***************************************************************************)
(* Bounds of the model.                                                    *)
(***************************************************************************)
MaxCalls == 3        \* calls of start() and stop() the owners make
MaxEvents == 2       \* sends of the peers and failures zmq raises
MaxTicks == 2        \* ticks counted after a stop() (history only)
MaxRank == 4         \* rank of the arrays that are encoded
MaxDim == 2          \* extent of each axis of the arrays that are encoded
MaxElems == 8        \* elements of the arrays that are encoded
MaxPayload == 4      \* payload bytes of the frames a foreign peer sends
MaxField == 3        \* characters after the scheme of a typed endpoint
MaxRest == 4         \* characters after the scheme of an endpoint
MaxNodes == 3        \* nodes of the nested structures given to send()

None == "None"

(***************************************************************************)
(* Arithmetic on shapes: numpy's index order.                              *)
(***************************************************************************)
RECURSIVE Prod(_)
Prod(s) == IF s = <<>> THEN 1 ELSE s[1] * Prod(Tail(s))

\* Offset of the index tuple idx in row-major (order "C") memory.
RECURSIVE Clin(_, _)
Clin(shape, idx) ==
    IF shape = <<>> THEN 0
    ELSE idx[1] * Prod(Tail(shape)) + Clin(Tail(shape), Tail(idx))

\* Offset of the index tuple idx in column-major (order "F") memory.
RECURSIVE Flin(_, _)
Flin(shape, idx) ==
    IF shape = <<>> THEN 0
    ELSE idx[1] + shape[1] * Flin(Tail(shape), Tail(idx))

\* The index tuple at row-major position k.
RECURSIVE UnravelC(_, _)
UnravelC(shape, k) ==
    IF shape = <<>> THEN <<>>
    ELSE <<k \div Prod(Tail(shape))>>
             \o UnravelC(Tail(shape), k % Prod(Tail(shape)))

\* The index tuple at column-major position k.
RECURSIVE UnravelF(_, _)
UnravelF(shape, k) ==
    IF shape = <<>> THEN <<>>
    ELSE <<k % shape[1]>> \o UnravelF(Tail(shape), k \div shape[1])

(***************************************************************************)
(* Element types.  A dense array is [shape, dtype, layout, data]: data is  *)
(* the sequence of the elements in index (row-major) order; layout says    *)
(* how the elements lie in memory: "C", "F" or "N" (strided, no single     *)
(* buffer).                                                                *)
(***************************************************************************)
DTypes == {"uint8", "uint16", "int64", "float64"}

Itemsize(d) ==
    CASE d = "uint8" -> 1 [] d = "uint16" -> 2 [] d = "int64" -> 8
      [] d = "float64" -> 8

NonUnitDims(shape) == {i \in 1..Len(shape) : shape[i] # 1}

\* Whether a single buffer of this shape is in row-major and column-major
\* order at once: no element, or at most one axis longer than 1.
BothOrders(shape) ==
    Prod(shape) = 0 \/ Cardinality(NonUnitDims(shape)) <= 1

\* arr.flags["C_CONTIGUOUS"]: the elements lie in one buffer in row-major
\* order.
CContiguous(arr) ==
    \/ arr.layout = "C"
    \/ arr.layout = "F" /\ BothOrders(arr.shape)

\* arr.flags["F_CONTIGUOUS"]
FContiguous(arr) ==
    \/ arr.layout = "F"
    \/ arr.layout = "C" /\ BothOrders(arr.shape)

\* np.ascontiguousarray(arr): a row-major copy.
AsContiguous(arr) == [arr EXCEPT !.layout = "C"]

\* The elements of a contiguous array in the order they lie in memory.
Memory(arr) ==
    IF arr.layout = "F"
    THEN [k \in 1..Len(arr.data) |->
             arr.data[Clin(arr.shape, UnravelF(arr.shape, k - 1)) + 1]]
    ELSE arr.data

\* The bytes of one element, native (little-endian) byte order.
RECURSIVE ElemBytes(_, _)
ElemBytes(v, n) ==
    IF n = 0 THEN <<>> ELSE <<v % 256>> \o ElemBytes(v \div 256, n - 1)

RECURSIVE ElemValue(_)
ElemValue(bs) ==
    IF bs = <<>> THEN 0 ELSE bs[1] + 256 * ElemValue(Tail(bs))

\* memoryview(arr): the raw buffer of a contiguous array.
RECURSIVE BytesOf(_, _)
BytesOf(elems, d) ==
    IF elems = <<>> THEN <<>>
    ELSE ElemBytes(elems[1], Itemsize(d)) \o BytesOf(Tail(elems), d)


(***************************************************************************)
(* Header values.  A value of the header map is [k, s, n, m]: k its JSON   *)
(* or Python kind, s its text, n its numbers, m its rows.                  *)
(***************************************************************************)
Str(t) == [k |-> "str", s |-> t, n |-> <<>>, m |-> <<>>]
IntV(i) == [k |-> "int", s |-> "", n |-> <<i>>, m |-> <<>>]
FloatV(i) == [k |-> "float", s |-> "", n |-> <<i>>, m |-> <<>>]
BoolV(b) == [k |-> "bool", s |-> "", n |-> <<IF b THEN 1 ELSE 0>>, m |-> <<>>]
ListV(kind, xs) == [k |-> kind, s |-> "", n |-> xs, m |-> <<>>]
MatrixV(kind, rows) == [k |-> kind, s |-> "", n |-> <<>>, m |-> rows]

\* float(x), bool(x), str(x), list(map(float, xs)) and
\* np.asarray(a, dtype=float).tolist()
PyFloat(v) == FloatV(v.n[1])
PyBool(v) == BoolV(IF v.k = "str" THEN v.s # "" ELSE v.n[1] # 0)
PyStr(v) == IF v.k = "str" THEN v ELSE Str(ToString(v.n[1]))
PyFloatList(v) == ListV("flist", v.n)
PyFloatMatrix(v) == MatrixV("fmatrix", v.m)

\* Python's == on header values: numbers compare by value, whatever their
\* type; sequences element by element.
PyEq(a, b) ==
    LET scalar == {"int", "float", "bool"}
        lists == {"ilist", "flist"}
        mats == {"imatrix", "fmatrix"}
    IN  \/ a.k \in scalar /\ b.k \in scalar /\ a.n = b.n
        \/ a.k \in lists /\ b.k \in lists /\ a.n = b.n
        \/ a.k \in mats /\ b.k \in mats /\ a.m = b.m
        \/ a.k = "str" /\ b.k = "str" /\ a.s = b.s

OptFields ==
    {"name", "colormap", "contrast_limits", "rgb", "affine", "scale",
     "translate", "opacity", "blending"}

RequiredFields == {"shape", "dtype", "order"}

\* The entry _send_numpy writes for the optional argument f given as v.
MetaEntry(f, v) ==
    CASE f = "name" -> v
      [] f = "colormap" -> v
      [] f = "contrast_limits" -> PyFloatList(v)
      [] f = "rgb" -> PyBool(v)
      [] f = "affine" -> PyFloatMatrix(v)
      [] f = "scale" -> PyFloatList(v)
      [] f = "translate" -> PyFloatList(v)
      [] f = "opacity" -> PyFloat(v)
      [] f = "blending" -> PyStr(v)

(***************************************************************************)
(* Frames.  A frame is [parts, header, payload]; its header is the map the *)
(* header text stands for: [json, keys, shape, dtype, order, is_labels,    *)
(* opt], json FALSE when the text is no JSON, keys the fields present, opt *)
(* the optional fields present.                                            *)
(***************************************************************************)
NoOpt == [f \in {} |-> Str("")]

Header(keys, shape, dtype, order, labels, opt) ==
    [json |-> TRUE, keys |-> keys, shape |-> shape, dtype |-> dtype,
     order |-> order, is_labels |-> labels, opt |-> opt]

Frame(parts, header, payload) ==
    [parts |-> parts, header |-> header, payload |-> payload]

\* A sender that never records column-major order.
OrderTag_AlwaysC(arr) == "C"

\* Which order tag _send_numpy records for a contiguous array.
OrderTag(arr) == IF FContiguous(arr) THEN "F" ELSE "C"

\* StreamSender._send_numpy: the frame put on the wire for arr and the
\* display options opts = [is_labels, opt], opt holding the arguments that
\* are not None.
SendNumpy(arr, opts) ==
    LET a == IF ~(CContiguous(arr) \/ FContiguous(arr))
             THEN AsContiguous(arr) ELSE arr
        order == OrderTag(a)
        opt == [f \in DOMAIN opts.opt |-> MetaEntry(f, opts.opt[f])]
        meta == Header(RequiredFields \cup {"is_labels"} \cup DOMAIN opt,
                       a.shape, a.dtype, order, opts.is_labels, opt)
    IN  Frame(2, meta, BytesOf(Memory(a), a.dtype))

(***************************************************************************)
(* Decoding.                                                               *)
(***************************************************************************)
Raise(e) == [ok |-> FALSE, err |-> e, shape |-> <<>>, dtype |-> "", data |-> <<>>]
Return(shape, dtype, data) ==
    [ok |-> TRUE, err |-> "", shape |-> shape, dtype |-> dtype, data |-> data]

\* np.frombuffer(buf, dtype=dtype): the elements of the buffer, in order.
RECURSIVE FromBuffer(_, _)
FromBuffer(buf, d) ==
    IF buf = <<>> THEN <<>>
    ELSE <<ElemValue(SubSeq(buf, 1, Itemsize(d)))>>
             \o FromBuffer(SubSeq(buf, Itemsize(d) + 1, Len(buf)), d)

\* The shape ndarray.reshape gives n elements for the requested shape, or
\* <<-1>> \o ... marks an error by ok FALSE: one -1 is an axis to infer.
ResolveShape(shape, n) ==
    LET unknown == {i \in 1..Len(shape) : shape[i] = -1}
        known == Prod([i \in 1..Len(shape) |->
                          IF shape[i] = -1 THEN 1 ELSE shape[i]])
    IN  IF \E i \in 1..Len(shape) : shape[i] < -1
        THEN [ok |-> FALSE, shape |-> <<>>]
        ELSE IF Cardinality(unknown) > 1
        THEN [ok |-> FALSE, shape |-> <<>>]
        ELSE IF Cardinality(unknown) = 1
        THEN IF known = 0 \/ n % known # 0
             THEN [ok |-> FALSE, shape |-> <<>>]
             ELSE [ok |-> TRUE,
                   shape |-> [i \in 1..Len(shape) |->
                                 IF shape[i] = -1 THEN n \div known
                                 ELSE shape[i]]]
        ELSE IF known # n
        THEN [ok |-> FALSE, shape |-> <<>>]
        ELSE [ok |-> TRUE, shape |-> shape]

\* arr.reshape(shape, order=order) of a one-dimensional buffer: the element
\* at each index, listed in index order.
Reshape(elems, shape, order) ==
    [k \in 1..Len(elems) |->
        IF order = "F"
        THEN elems[Flin(shape, UnravelC(shape, k - 1)) + 1]
        ELSE elems[k]]

\* _from_bytes(buf, meta)
FromBytes(buf, meta) ==
    IF "shape" \notin meta.keys THEN Raise("KeyError('shape')")
    ELSE IF "dtype" \notin meta.keys THEN Raise("KeyError('dtype')")
    ELSE IF meta.dtype \notin DTypes THEN Raise("TypeError")
    ELSE LET order == IF "order" \in meta.keys THEN meta.order ELSE "C"
         IN  IF Len(buf) % Itemsize(meta.dtype) # 0 THEN Raise("ValueError")
             ELSE LET elems == FromBuffer(buf, meta.dtype)
                      rs == ResolveShape(meta.shape, Len(elems))
                  IN  IF order \notin {"C", "F", "A"} THEN Raise("ValueError")
                      ELSE IF ~rs.ok THEN Raise("ValueError")
                      ELSE Return(rs.shape, meta.dtype,
                                  Reshape(elems, rs.shape, order))

\* Lines 53-55 of the poll loop: unpack the two parts, parse the header,
\* rebuild the array.
DecodeFrame(f) ==
    IF f.parts # 2 THEN Raise("ValueError")
    ELSE IF ~f.header.json THEN Raise("JSONDecodeError")
    ELSE FromBytes(f.payload, f.header)


(***************************************************************************)
(* The inputs of the codec: the arrays and display options a caller hands  *)
(* to the sender, and the frames any other peer may put on the wire.       *)
(***************************************************************************)
Shapes(rank) ==
    {sh \in UNION {[1..r -> 0..MaxDim] : r \in 1..rank} :
        Prod(sh) <= MaxElems}

\* Element values that tell every position apart; the second pattern uses
\* the high byte of a two-byte element.
Pattern(p, n, d) ==
    [k \in 1..n |->
        IF p = 0 THEN k - 1
        ELSE IF d = "uint8" THEN 255 - (k - 1) ELSE 254 + 3 * k]

Layouts(sh) == IF Prod(sh) > 1 THEN {"C", "F", "N"} ELSE {"C"}

InputArrays(rank) ==
    {[shape |-> sh, dtype |-> d, layout |-> l, data |-> Pattern(p, Prod(sh), d)] :
        sh \in Shapes(rank), d \in {"uint8", "uint16"}, l \in {"C", "F", "N"},
        p \in {0, 1}}

Arrays(rank) == {a \in InputArrays(rank) : a.layout \in Layouts(a.shape)}

\* One value a caller may give for each optional argument of send().
OptValue(f) ==
    CASE f = "name" -> Str("img")
      [] f = "colormap" -> Str("gray")
      [] f = "contrast_limits" -> ListV("ilist", <<0, 3>>)
      [] f = "rgb" -> BoolV(TRUE)
      [] f = "affine" -> MatrixV("imatrix", <<<<1, 0>>, <<0, 2>>>>)
      [] f = "scale" -> ListV("flist", <<1, 2>>)
      [] f = "translate" -> ListV("ilist", <<0, 5>>)
      [] f = "opacity" -> IntV(1)
      [] f = "blending" -> Str("additive")

\* The display options: none, each one alone, all of them.
OptionSets ==
    {[is_labels |-> l, opt |-> [f \in S |-> OptValue(f)]] :
        l \in BOOLEAN,
        S \in {T \in SUBSET OptFields :
                  Cardinality(T) <= 1 \/ T = OptFields}}

NoOptions == [is_labels |-> FALSE, opt |-> NoOpt]

PayloadOf(n) == [k \in 1..n |-> k]

\* Frames of a peer that is no StreamSender: any header, any payload length.
ForeignHeaders ==
    {Header(ks \cup {"is_labels"}, sh, d, o, FALSE, NoOpt) :
        ks \in SUBSET RequiredFields,
        sh \in UNION {[1..r -> -2..3] : r \in 0..2},
        d \in {"uint8", "uint16", "float99"},
        o \in {"C", "F", "X"}}

BadJson == [Header({}, <<>>, "", "", FALSE, NoOpt) EXCEPT !.json = FALSE]

ForeignFrames(len) ==
    {Frame(2, h, PayloadOf(n)) : h \in ForeignHeaders, n \in 0..len}
    \cup {Frame(2, BadJson, <<>>)}
    \cup {Frame(k, Header(RequiredFields, <<1>>, "uint8", "C", FALSE, NoOpt),
                PayloadOf(1)) : k \in {1, 3}}

(***************************************************************************)
(* State.                                                                  *)
(*   Listener sessions (ZMQImageListener).  pc is the position of the      *)
(*   worker inside start(); endpoint, sock, ctx, running are the fields    *)
(*   _endpoint, _sock, _ctx, _running; exc the exception in flight; cur    *)
(*   the message recv_multipart returned; log the emissions of the three   *)
(*   signals, in order; wire the frames queued for each endpoint.          *)
(*   calls counts the owners' calls of start() and stop(), events the      *)
(*   frames sent and the transport failures; stopped and ticks are history: *)
(*   whether stop() was called during the running start(), and the ticks   *)
(*   begun since.                                                          *)
(***************************************************************************)
VARIABLES pc, endpoint, sock, ctx, running, exc, cur, log, wire,
          calls, events, stopped, ticks

lvars == <<pc, endpoint, sock, ctx, running, exc, cur, log, wire,
           calls, events, stopped, ticks>>

Sessions == {1, 2}

IpcEndpoint == "ipc:///tmp/napari_stream.sock"
TcpEndpoint == "tcp://127.0.0.1:5556"
BadEndpoint == "bogus://"

Endpoints == {IpcEndpoint, TcpEndpoint, BadEndpoint}

\* Whether zmq can bind the address at all.
ValidEndpoint(e) == e # BadEndpoint

\* The sessions whose socket is bound to e.
BoundAt(e) == {s \in Sessions : sock[s] = "bound" /\ endpoint[s] = e}

\* The positions at which start() is running.
InStart == {"socket", "bind", "running", "loop", "poll", "recv", "decode",
            "except", "teardown"}

Polling == {"loop", "poll", "recv", "decode"}

Status(t) == [k |-> "status", text |-> t, arr |-> Raise(""), meta |-> BadJson]
Error(t) == [k |-> "error", text |-> t, arr |-> Raise(""), meta |-> BadJson]
Data(a, m) == [k |-> "data", text |-> "", arr |-> a, meta |-> m]

Emit(s, e) == log' = [log EXCEPT ![s] = Append(@, e)]

\* The frames a peer sends in the listener's runs: one a StreamSender made,
\* and frames of other peers.
GoodFrame ==
    SendNumpy([shape |-> <<2>>, dtype |-> "uint8", layout |-> "C",
               data |-> <<7, 9>>], NoOptions)

WireFrames ==
    {GoodFrame,
     Frame(2, BadJson, <<>>),
     Frame(3, GoodFrame.header, GoodFrame.payload),
     Frame(2, [GoodFrame.header EXCEPT !.shape = <<3>>], <<7, 9>>),
     Frame(2, [GoodFrame.header EXCEPT !.dtype = "float99"], <<7, 9>>),
     Frame(2, [GoodFrame.header EXCEPT !.shape = <<-1>>], <<7, 9>>),
     Frame(2, [GoodFrame.header EXCEPT !.keys = @ \ {"order"}], <<7, 9>>)}

ListenerInit ==
    /\ pc = [s \in Sessions |-> "none"]
    /\ endpoint = [s \in Sessions |-> None]
    /\ sock = [s \in Sessions |-> None]
    /\ ctx = [s \in Sessions |-> None]
    /\ running = [s \in Sessions |-> FALSE]
    /\ exc = [s \in Sessions |-> None]
    /\ cur = [s \in Sessions |-> Frame(0, BadJson, <<>>)]
    /\ log = [s \in Sessions |-> <<>>]
    /\ wire = [e \in Endpoints |-> <<>>]
    /\ calls = 0
    /\ events = 0
    /\ stopped = [s \in Sessions |-> FALSE]
    /\ ticks = [s \in Sessions |-> 0]

\* ZMQImageListener.__init__
Construct(s, e) ==
    /\ pc[s] = "none"
    /\ pc' = [pc EXCEPT ![s] = "idle"]
    /\ endpoint' = [endpoint EXCEPT ![s] = e]
    /\ UNCHANGED <<sock, ctx, running, exc, cur, log, wire, calls, events,
                   stopped, ticks>>

\* The worker enters start().
StartCall(s) ==
    /\ pc[s] \in {"idle", "returned"}
    /\ calls < MaxCalls
    /\ calls' = calls + 1
    /\ pc' = [pc EXCEPT ![s] = "socket"]
    /\ stopped' = [stopped EXCEPT ![s] = FALSE]
    /\ ticks' = [ticks EXCEPT ![s] = 0]
    /\ UNCHANGED <<endpoint, sock, ctx, running, exc, cur, log, wire, events>>

\* Lines 36-39: the context and the PULL socket.
MakeSocket(s) ==
    /\ pc[s] = "socket"
    /\ ctx' = [ctx EXCEPT ![s] = "instance"]
    /\ sock' = [sock EXCEPT ![s] = "open"]
    /\ pc' = [pc EXCEPT ![s] = "bind"]
    /\ UNCHANGED <<endpoint, running, exc, cur, log, wire, calls, events,
                   stopped, ticks>>

\* Lines 36-37 raising: no socket could be made.
SocketFails(s) ==
    /\ pc[s] = "socket"
    /\ events < MaxEvents
    /\ events' = events + 1
    /\ ctx' = [ctx EXCEPT ![s] = "instance"]
    /\ exc' = [exc EXCEPT ![s] = "ZMQError('Too many open files')"]
    /\ pc' = [pc EXCEPT ![s] = "except"]
    /\ UNCHANGED <<endpoint, sock, running, cur, log, wire, calls, stopped,
                   ticks>>

\* Whether zmq refuses session s its bind: the address is invalid, or
\* another socket is bound to it.
BindRefused(s) ==
    \/ ~ValidEndpoint(endpoint[s])
    \/ BoundAt(endpoint[s]) \ {s} # {}

\* A start() that swallows the bind error and goes on to poll.
Bind_Swallowed(s) ==
    /\ pc[s] = "bind"
    /\ sock' = IF BindRefused(s) THEN sock ELSE [sock EXCEPT ![s] = "bound"]
    /\ pc' = [pc EXCEPT ![s] = "running"]
    /\ UNCHANGED <<endpoint, ctx, running, exc, cur, log, wire, calls, events,
                   stopped, ticks>>

\* Line 42: self._sock.bind(self._endpoint), which raises when refused.
Bind(s) ==
    /\ pc[s] = "bind"
    /\ IF BindRefused(s)
       THEN /\ exc' = [exc EXCEPT ![s] =
                          IF ValidEndpoint(endpoint[s])
                          THEN "ZMQError('Address already in use')"
                          ELSE "ZMQError('Protocol not supported')"]
            /\ pc' = [pc EXCEPT ![s] = "except"]
            /\ sock' = sock
       ELSE /\ sock' = [sock EXCEPT ![s] = "bound"]
            /\ pc' = [pc EXCEPT ![s] = "running"]
            /\ exc' = exc
    /\ UNCHANGED <<endpoint, ctx, running, cur, log, wire, calls, events,
                   stopped, ticks>>

\* Lines 43-47: the flag, the status, the poller.
SetRunning(s) ==
    /\ pc[s] = "running"
    /\ running' = [running EXCEPT ![s] = TRUE]
    /\ Emit(s, Status("Listening on " \o endpoint[s]))
    /\ pc' = [pc EXCEPT ![s] = "loop"]
    /\ UNCHANGED <<endpoint, sock, ctx, exc, cur, wire, calls, events,
                   stopped, ticks>>

\* Line 49: while self._running; a tick begins when the test passes.
LoopCheck(s) ==
    /\ pc[s] = "loop"
    /\ IF running[s]
       THEN /\ pc' = [pc EXCEPT ![s] = "poll"]
            /\ ticks' = [ticks EXCEPT ![s] =
                            IF stopped[s] /\ @ < MaxTicks THEN @ + 1 ELSE @]
       ELSE /\ pc' = [pc EXCEPT ![s] = "teardown"]
            /\ ticks' = ticks
    /\ UNCHANGED <<endpoint, sock, ctx, running, exc, cur, log, wire, calls,
                   events, stopped>>

\* Line 50: the poll times out after 100 ms with nothing to read.
PollTimeout(s) ==
    /\ pc[s] = "poll"
    /\ wire[endpoint[s]] = <<>>
    /\ pc' = [pc EXCEPT ![s] = "loop"]
    /\ UNCHANGED <<endpoint, sock, ctx, running, exc, cur, log, wire, calls,
                   events, stopped, ticks>>

\* Lines 50-51: the poll reports the socket readable.
PollReady(s) ==
    /\ pc[s] = "poll"
    /\ wire[endpoint[s]] # <<>>
    /\ pc' = [pc EXCEPT ![s] = "recv"]
    /\ UNCHANGED <<endpoint, sock, ctx, running, exc, cur, log, wire, calls,
                   events, stopped, ticks>>

\* Line 50 raising a ZMQError: caught by the outer handler.
PollFails(s) ==
    /\ pc[s] = "poll"
    /\ events < MaxEvents
    /\ events' = events + 1
    /\ exc' = [exc EXCEPT ![s] = "ZMQError('Context was terminated')"]
    /\ pc' = [pc EXCEPT ![s] = "except"]
    /\ UNCHANGED <<endpoint, sock, ctx, running, cur, log, wire, calls,
                   stopped, ticks>>

\* A socket that hands out the newest message first.
Recv_Newest(s) ==
    /\ pc[s] = "recv"
    /\ wire[endpoint[s]] # <<>>
    /\ cur' = [cur EXCEPT ![s] = wire[endpoint[s]][Len(wire[endpoint[s]])]]
    /\ wire' = [wire EXCEPT ![endpoint[s]] = SubSeq(@, 1, Len(@) - 1)]
    /\ pc' = [pc EXCEPT ![s] = "decode"]
    /\ UNCHANGED <<endpoint, sock, ctx, running, exc, log, calls, events,
                   stopped, ticks>>

\* Line 53: recv_multipart takes the next message off the socket.  (The
\* socket has one reader, so a readable socket has a message: zmq.Again of
\* lines 57-58 does not occur.)
Recv(s) ==
    /\ pc[s] = "recv"
    /\ wire[endpoint[s]] # <<>>
    /\ cur' = [cur EXCEPT ![s] = Head(wire[endpoint[s]])]
    /\ wire' = [wire EXCEPT ![endpoint[s]] = Tail(@)]
    /\ pc' = [pc EXCEPT ![s] = "decode"]
    /\ UNCHANGED <<endpoint, sock, ctx, running, exc, log, calls, events,
                   stopped, ticks>>

\* Line 53 raising a ZMQError other than Again: caught by the inner
\* handler of lines 59-60, and the loop goes on.
RecvFails(s) ==
    /\ pc[s] = "recv"
    /\ events < MaxEvents
    /\ events' = events + 1
    /\ Emit(s, Error("ZMQError('Socket operation on non-socket')"))
    /\ pc' = [pc EXCEPT ![s] = "loop"]
    /\ UNCHANGED <<endpoint, sock, ctx, running, exc, cur, wire, calls,
                   stopped, ticks>>

\* A poll loop without the inner handler: a decode error leaves the loop.
Decode_Fatal(s) ==
    /\ pc[s] = "decode"
    /\ LET r == DecodeFrame(cur[s])
       IN  IF r.ok
           THEN /\ Emit(s, Data(r, cur[s].header))
                /\ pc' = [pc EXCEPT ![s] = "loop"]
                /\ exc' = exc
           ELSE /\ log' = log
                /\ pc' = [pc EXCEPT ![s] = "except"]
                /\ exc' = [exc EXCEPT ![s] = r.err]
    /\ UNCHANGED <<endpoint, sock, ctx, running, cur, wire, calls, events,
                   stopped, ticks>>

\* Lines 53-60 after the receive: unpack, parse, decode; emit the array or,
\* on any exception, its repr on the error signal.
Decode(s) ==
    /\ pc[s] = "decode"
    /\ LET r == DecodeFrame(cur[s])
       IN  IF r.ok
           THEN Emit(s, Data(r, cur[s].header))
           ELSE Emit(s, Error(r.err))
    /\ pc' = [pc EXCEPT ![s] = "loop"]
    /\ UNCHANGED <<endpoint, sock, ctx, running, exc, cur, wire, calls,
                   events, stopped, ticks>>

\* Lines 61-62: the outer handler reports the exception.
Except(s) ==
    /\ pc[s] = "except"
    /\ Emit(s, Error(exc[s]))
    /\ exc' = [exc EXCEPT ![s] = None]
    /\ pc' = [pc EXCEPT ![s] = "teardown"]
    /\ UNCHANGED <<endpoint, sock, ctx, running, cur, wire, calls, events,
                   stopped, ticks>>

\* A teardown that closes the socket without reporting it.
Teardown_Silent(s) ==
    /\ pc[s] = "teardown"
    /\ sock' = [sock EXCEPT ![s] = None]
    /\ ctx' = [ctx EXCEPT ![s] = None]
    /\ pc' = [pc EXCEPT ![s] = "returned"]
    /\ UNCHANGED <<endpoint, running, exc, cur, log, wire, calls, events,
                   stopped, ticks>>

\* A teardown that reports but neither closes nor clears the socket.
Teardown_KeepSocket(s) ==
    /\ pc[s] = "teardown"
    /\ Emit(s, Status("Listener stopped."))
    /\ pc' = [pc EXCEPT ![s] = "returned"]
    /\ UNCHANGED <<endpoint, sock, ctx, running, exc, cur, wire, calls,
                   events, stopped, ticks>>

\* Lines 63-64 and _teardown: close the socket if there is one, clear the
\* fields, report; then start() returns.
Teardown(s) ==
    /\ pc[s] = "teardown"
    /\ sock' = [sock EXCEPT ![s] = None]
    /\ ctx' = [ctx EXCEPT ![s] = None]
    /\ Emit(s, Status("Listener stopped."))
    /\ pc' = [pc EXCEPT ![s] = "returned"]
    /\ UNCHANGED <<endpoint, running, exc, cur, wire, calls, events, stopped,
                   ticks>>

\* ZMQImageListener.stop, called from the owner's thread at any time.
Stop(s) ==
    /\ pc[s] # "none"
    /\ calls < MaxCalls
    /\ calls' = calls + 1
    /\ running' = [running EXCEPT ![s] = FALSE]
    /\ Emit(s, Status("Stopping listener..."))
    /\ stopped' = [stopped EXCEPT ![s] = @ \/ pc[s] \in InStart]
    /\ UNCHANGED <<pc, endpoint, sock, ctx, exc, cur, wire, events, ticks>>

\* A peer's send_multipart to endpoint e.
PeerSend(e, f) ==
    /\ events < MaxEvents
    /\ \E s \in Sessions : endpoint[s] = e
    /\ ValidEndpoint(e)
    /\ events' = events + 1
    /\ wire' = [wire EXCEPT ![e] = Append(@, f)]
    /\ UNCHANGED <<pc, endpoint, sock, ctx, running, exc, cur, log, calls,
                   stopped, ticks>>

\* The steps of the worker inside start().
WorkerStep(s) ==
    \/ MakeSocket(s)
    \/ SocketFails(s)
    \/ Bind(s)
    \/ SetRunning(s)
    \/ LoopCheck(s)
    \/ PollTimeout(s)
    \/ PollReady(s)
    \/ PollFails(s)
    \/ Recv(s)
    \/ RecvFails(s)
    \/ Decode(s)
    \/ Except(s)
    \/ Teardown(s)

\* The steps of one session: its worker inside start(), and its owner.
SessionStep(s) == StartCall(s) \/ WorkerStep(s) \/ Stop(s)

\* One listener session and the peers of its endpoint.
ListenerNext ==
    \/ \E e \in Endpoints : Construct(1, e)
    \/ SessionStep(1)
    \/ \E e \in Endpoints, f \in WireFrames : PeerSend(e, f)

\* Two listener sessions, and a StreamSender as the peer.
PairNext ==
    \/ \E s \in Sessions, e \in Endpoints : Construct(s, e)
    \/ \E s \in Sessions : SessionStep(s)
    \/ \E e \in Endpoints : PeerSend(e, GoodFrame)

(***************************************************************************)
(* The codec on its own: a caller's array and display options go through   *)
(* _send_numpy and come back through the listener's decoding; or a frame   *)
(* of some other peer is decoded.  cpc is the stage, cSrc who made the     *)
(* frame, cArr and cOpts the caller's input, cFrame the frame on the wire, *)
(* cOut what decoding gives.                                               *)
(***************************************************************************)
VARIABLES cpc, cSrc, cArr, cOpts, cFrame, cOut

cvars == <<cpc, cSrc, cArr, cOpts, cFrame, cOut>>

NoArray == [shape |-> <<>>, dtype |-> "uint8", layout |-> "C", data |-> <<>>]

CodecIdle ==
    /\ cpc = "idle"
    /\ cSrc = None
    /\ cArr = NoArray
    /\ cOpts = NoOptions
    /\ cFrame = Frame(0, BadJson, <<>>)
    /\ cOut = Raise("")

CodecInit ==
    /\ cOut = Raise("")
    /\ \/ /\ cpc = "input"
          /\ cSrc = "sender"
          /\ cArr \in Arrays(MaxRank)
          /\ cOpts \in OptionSets
          /\ cFrame = Frame(0, BadJson, <<>>)
       \/ /\ cpc = "wire"
          /\ cSrc = "peer"
          /\ cArr = NoArray
          /\ cOpts = NoOptions
          /\ cFrame \in ForeignFrames(MaxPayload)

\* StreamSender._send_numpy up to send_multipart.
Encode ==
    /\ cpc = "input"
    /\ cFrame' = SendNumpy(cArr, cOpts)
    /\ cpc' = "wire"
    /\ UNCHANGED <<cSrc, cArr, cOpts, cOut>>

\* Lines 53-55 of the listener on that frame.
CodecDecode ==
    /\ cpc = "wire"
    /\ cOut' = DecodeFrame(cFrame)
    /\ cpc' = "decoded"
    /\ UNCHANGED <<cSrc, cArr, cOpts, cFrame>>

CodecNext == Encode \/ CodecDecode

(***************************************************************************)
(* The values given to send().  A value is [t, arr, v, keys, items]: an    *)
(* ndarray ("nd", arr), a numpy scalar ("scalar", v), a Python number      *)
(* ("int", v), a list or a tuple (items) or a dict (keys and items, in     *)
(* insertion order).  A dict key is [t, i, s]: an int or a str.            *)
(***************************************************************************)
NdValue(a) == [t |-> "nd", arr |-> a, v |-> 0, keys |-> <<>>, items |-> <<>>]
ScalarValue(x) ==
    [t |-> "scalar", arr |-> NoArray, v |-> x, keys |-> <<>>, items |-> <<>>]
IntValue(x) ==
    [t |-> "int", arr |-> NoArray, v |-> x, keys |-> <<>>, items |-> <<>>]
SeqValue(kind, xs) ==
    [t |-> kind, arr |-> NoArray, v |-> 0, keys |-> <<>>, items |-> xs]
DictValue(ks, xs) ==
    [t |-> "dict", arr |-> NoArray, v |-> 0, keys |-> ks, items |-> xs]
\* An object with the attributes shape and dtype (line 287) of which
\* np.asarray makes an array of dtype object only.
ProtoValue ==
    [t |-> "proto", arr |-> NoArray, v |-> 0, keys |-> <<>>, items |-> <<>>]

IntKey(n) == [t |-> "int", i |-> n, s |-> ""]
StrKey(x) == [t |-> "str", i |-> 0, s |-> x]

\* f"{key}"
KeyText(key) == IF key.t = "int" THEN ToString(key.i) ELSE key.s

\* The element type numpy gives an array made of elements of types a and b.
DTypeRank(d) ==
    CASE d = "uint8" -> 1 [] d = "uint16" -> 2 [] d = "int64" -> 3
      [] d = "float64" -> 4
Promote(a, b) == IF DTypeRank(a) >= DTypeRank(b) THEN a ELSE b

NotAnArray == [ok |-> FALSE, arr |-> NoArray]
AnArray(sh, d, data) ==
    [ok |-> TRUE,
     arr |-> [shape |-> sh, dtype |-> d, layout |-> "C", data |-> data]]

\* np.asarray(x) with a dtype other than object: a number is a 0-d array, a
\* list or tuple of equally shaped parts is their stack; a dict, or parts of
\* different shapes, give no numeric array.
RECURSIVE NpAsarray(_), NpStack(_, _, _)
NpAsarray(x) ==
    CASE x.t = "nd" -> [ok |-> TRUE, arr |-> x.arr]
      [] x.t = "scalar" -> AnArray(<<>>, "uint8", <<x.v>>)
      [] x.t = "int" -> AnArray(<<>>, "int64", <<x.v>>)
      [] x.t \in {"dict", "proto"} -> NotAnArray
      [] x.t \in {"list", "tuple"} ->
            IF x.items = <<>> THEN AnArray(<<0>>, "float64", <<>>)
            ELSE NpStack(x.items, 1, NpAsarray(x.items[1]))

\* The stack of items[1..i], acc, extended by the items after i.
NpStack(items, i, acc) ==
    IF ~acc.ok THEN NotAnArray
    ELSE IF i = Len(items)
    THEN AnArray(<<Len(items)>> \o acc.arr.shape, acc.arr.dtype, acc.arr.data)
    ELSE LET nxt == NpAsarray(items[i + 1])
         IN  IF ~nxt.ok \/ nxt.arr.shape # acc.arr.shape THEN NotAnArray
             ELSE NpStack(items, i + 1,
                          AnArray(acc.arr.shape,
                                  Promote(acc.arr.dtype, nxt.arr.dtype),
                                  acc.arr.data \o nxt.arr.data))

\* StreamSender.is_arraylike
IsArrayLike(x) ==
    IF x.t = "dict" THEN FALSE
    ELSE IF x.t \in {"nd", "scalar", "proto"} THEN TRUE
    ELSE IF x.t \in {"list", "tuple"} THEN NpAsarray(x).ok
    ELSE FALSE

\* StreamSender._to_numpy: the array, or ok FALSE for the TypeError.
ToNumpy(x) ==
    IF x.t = "nd" THEN [ok |-> TRUE, arr |-> x.arr]
    ELSE IF x.t = "scalar" THEN NpAsarray(x)
    ELSE IF x.t \in {"list", "tuple"} THEN NpAsarray(x)
    ELSE NotAnArray

Entry(path, obj) == [path |-> path, obj |-> obj]

\* dict.update on an insertion-ordered dict, kept as a sequence of entries:
\* an entry whose path is there already replaces the value in place.
RECURSIVE Update(_, _)
Update(m, r) ==
    IF r = <<>> THEN m
    ELSE LET e == Head(r)
             put == IF \E i \in DOMAIN m : m[i].path = e.path
                    THEN [i \in DOMAIN m |->
                             IF m[i].path = e.path THEN e ELSE m[i]]
                    ELSE Append(m, e)
         IN  Update(put, Tail(r))

\* The entries flatten is to return: one for every array-like leaf under a
\* dict or list, under its path, in traversal order.
RECURSIVE LeafEntries(_, _), LeafEntriesFrom(_, _, _, _)
LeafEntries(name, obj) ==
    IF obj.t \in {"dict", "list"} THEN LeafEntriesFrom(name, obj, 1, <<>>)
    ELSE IF IsArrayLike(obj) THEN <<Entry(name, obj)>>
    ELSE <<>>

LeafEntriesFrom(name, obj, i, acc) ==
    IF i > Len(obj.items) THEN acc
    ELSE LET seg == IF obj.t = "dict" THEN KeyText(obj.keys[i])
                    ELSE ToString(i - 1)
             sub == LeafEntries(name \o "[" \o seg \o "]",
                                             obj.items[i])
         IN  LeafEntriesFrom(name, obj, i + 1, acc \o sub)

\* StreamSender.retrieve_array_like: the entries of the returned dict, in
\* insertion order.
RECURSIVE RetrieveArrayLike(_, _), RetrieveItems(_, _, _, _)
RetrieveArrayLike(name, obj) ==
    IF obj.t \in {"dict", "list"} THEN RetrieveItems(name, obj, 1, <<>>)
    ELSE IF IsArrayLike(obj) THEN <<Entry(name, obj)>>
    ELSE <<>>

\* The loop of lines 235-237 and 241-243 from item i on, new_obj being acc.
RetrieveItems(name, obj, i, acc) ==
    IF i > Len(obj.items) THEN acc
    ELSE LET seg == IF obj.t = "dict" THEN KeyText(obj.keys[i])
                    ELSE ToString(i - 1)
             sub == RetrieveArrayLike(name \o "[" \o seg \o "]", obj.items[i])
         IN  RetrieveItems(name, obj, i + 1, Update(acc, sub))

\* Line 63: whether send() takes the input for a structure.
IsStructure(x) == x.t \in {"dict", "list", "tuple"}

(***************************************************************************)
(* The inputs of send(): every value of at most MaxNodes nodes over a few  *)
(* leaves and keys.                                                        *)
(***************************************************************************)
ImgA == [shape |-> <<2>>, dtype |-> "uint8", layout |-> "C", data |-> <<1, 2>>]
ImgB == [shape |-> <<2>>, dtype |-> "uint8", layout |-> "C", data |-> <<3, 4>>]

Leaves ==
    {NdValue(ImgA), NdValue(ImgB), ScalarValue(6), IntValue(5), ProtoValue}

Keys == {IntKey(0), StrKey("0"), StrKey("a")}

KeySeqs(n) ==
    {ks \in [1..n -> Keys] : \A i, j \in 1..n : i # j => ks[i] # ks[j]}

\* The values of exactly n nodes, and the non-empty sequences of values of
\* n nodes in all.
RECURSIVE Trees(_), Forests(_)
Trees(n) ==
    IF n = 1
    THEN Leaves \cup {SeqValue("list", <<>>), SeqValue("tuple", <<>>),
                      DictValue(<<>>, <<>>)}
    ELSE {SeqValue(k, f) : k \in {"list", "tuple"}, f \in Forests(n - 1)}
         \cup UNION {{DictValue(ks, f) : ks \in KeySeqs(Len(f))} :
                        f \in Forests(n - 1)}

Forests(n) ==
    {<<t>> : t \in Trees(n)}
    \cup UNION {{<<t>> \o f : t \in Trees(k), f \in Forests(n - k)} :
                   k \in 1..(n - 1)}

Values(nodes) == UNION {Trees(n) : n \in 1..nodes}

(***************************************************************************)
(* One call of the sender.  spc is the stage of the call, sVal and sName   *)
(* its arguments array and name, sQueue the entries still to send (or, for *)
(* a call of retrieve_array_like, its result), sSent the frames handed to  *)
(* send_multipart so far.                                                  *)
(***************************************************************************)
VARIABLES spc, sVal, sName, sQueue, sSent

svars == <<spc, sVal, sName, sQueue, sSent>>

SenderIdle ==
    /\ spc = "idle"
    /\ sVal = IntValue(0)
    /\ sName = None
    /\ sQueue = <<>>
    /\ sSent = <<>>

SenderInit ==
    /\ spc = "start"
    /\ sVal \in Values(MaxNodes)
    /\ sName \in {None, "root"}
    /\ sQueue = <<>>
    /\ sSent = <<>>

\* A send() that gives an unnamed layer no name.
Base_Unnamed == IF sName = None THEN "" ELSE sName

\* Line 60: base = name or "array"
Base == IF sName = None THEN "array" ELSE sName

\* The display options of a call that names only the layer.
Named(path) == [is_labels |-> FALSE, opt |-> [f \in {"name"} |-> Str(path)]]

\* A call of retrieve_array_like(name, array).
FlattenCall ==
    /\ spc = "start"
    /\ sName # None
    /\ sQueue' = RetrieveArrayLike(sName, sVal)
    /\ spc' = "flattened"
    /\ UNCHANGED <<sVal, sName, sSent>>

\* send(), lines 60-65 and 84: the entries to send.
SendCall ==
    /\ spc = "start"
    /\ sQueue' = IF IsStructure(sVal) THEN RetrieveArrayLike(Base, sVal)
                 ELSE <<Entry(Base, sVal)>>
    /\ spc' = "sending"
    /\ UNCHANGED <<sVal, sName, sSent>>

\* Lines 66-80 and 84-97: _to_numpy and _send_numpy of the next entry; a
\* TypeError of _to_numpy leaves send().
SendLeaf ==
    /\ spc = "sending"
    /\ sQueue # <<>>
    /\ LET e == Head(sQueue)
           a == ToNumpy(e.obj)
       IN  IF a.ok
           THEN /\ sSent' = Append(sSent, SendNumpy(a.arr, Named(e.path)))
                /\ sQueue' = Tail(sQueue)
                /\ spc' = spc
           ELSE /\ spc' = "raised"
                /\ UNCHANGED <<sQueue, sSent>>
    /\ UNCHANGED <<sVal, sName>>

\* Line 81 and the end of send(): every entry is sent.
SendReturn ==
    /\ spc = "sending"
    /\ sQueue = <<>>
    /\ spc' = "done"
    /\ UNCHANGED <<sVal, sName, sQueue, sSent>>

SenderNext == FlattenCall \/ SendCall \/ SendLeaf \/ SendReturn

(***************************************************************************)
(* A StreamSender connected to the endpoint of a listener session: the     *)
(* frames of its send() calls go on the wire of its endpoint one by one,   *)
(* while the session runs.                                                 *)
(***************************************************************************)
\* StreamSender.__init__, line 31, with no endpoint given.
SenderEndpoint == IpcEndpoint

Img2D(layout) ==
    [shape |-> <<2, 2>>, dtype |-> "uint8", layout |-> layout,
     data |-> <<0, 1, 2, 3>>]

LinkValues ==
    {NdValue(Img2D("F")),
     SeqValue("list", <<NdValue(ImgA), NdValue(ImgB)>>),
     DictValue(<<StrKey("a"), IntKey(0)>>, <<NdValue(ImgB), ProtoValue>>)}

\* The caller calls send(v) with default options, once the call before has
\* ended.
LinkCall(v) ==
    /\ spc \in {"idle", "done", "raised"}
    /\ events < MaxEvents
    /\ events' = events + 1
    /\ sVal' = v
    /\ sName' = None
    /\ sQueue' = <<>>
    /\ spc' = "start"
    /\ UNCHANGED <<sSent, pc, endpoint, sock, ctx, running, exc, cur, log,
                   wire, calls, stopped, ticks>>

\* send_multipart of line 155 puts the frame on the wire.
LinkLeaf ==
    /\ SendLeaf
    /\ wire' = [wire EXCEPT ![SenderEndpoint] =
                   @ \o SubSeq(sSent', Len(sSent) + 1, Len(sSent'))]
    /\ UNCHANGED <<pc, endpoint, sock, ctx, running, exc, cur, log, calls,
                   events, stopped, ticks>>

LinkNext ==
    \/ \E v \in LinkValues : LinkCall(v)
    \/ SendCall /\ UNCHANGED lvars
    \/ LinkLeaf
    \/ SendReturn /\ UNCHANGED lvars
    \/ Construct(1, SenderEndpoint) /\ UNCHANGED svars
    \/ SessionStep(1) /\ UNCHANGED svars

(***************************************************************************)
(* Endpoint resolution.  An endpoint is the sequence of its characters.    *)
(***************************************************************************)
TcpPrefix == <<"t", "c", "p", ":", "/", "/">>
IpcPrefix == <<"i", "p", "c", ":", "/", "/">>

\* The characters of "0.0.0.0"
AnyHost == <<"0", ".", "0", ".", "0", ".", "0">>

Digits == <<"0", "1", "2", "3", "4", "5", "6", "7", "8", "9">>

IsDigit(c) == \E i \in DOMAIN Digits : Digits[i] = c
DigitValue(c) == (CHOOSE i \in DOMAIN Digits : Digits[i] = c) - 1

\* str.startswith
StartsWith(e, p) == Len(e) >= Len(p) /\ SubSeq(e, 1, Len(p)) = p

\* str.strip: without the blanks at both ends.
RECURSIVE Strip(_)
Strip(x) ==
    IF x = <<>> THEN x
    ELSE IF Head(x) = " " THEN Strip(Tail(x))
    ELSE IF x[Len(x)] = " " THEN Strip(SubSeq(x, 1, Len(x) - 1))
    ELSE x

\* The number a run of digits writes.
RECURSIVE DigitsValue(_)
DigitsValue(x) ==
    IF x = <<>> THEN 0
    ELSE 10 * DigitsValue(SubSeq(x, 1, Len(x) - 1)) + DigitValue(x[Len(x)])

\* int(text): blanks around, one optional sign, then digits; ok FALSE for
\* the ValueError.
PyInt(text) ==
    LET t == Strip(text)
        signed == t # <<>> /\ Head(t) \in {"-", "+"}
        d == IF signed THEN Tail(t) ELSE t
    IN  IF d # <<>> /\ \A i \in DOMAIN d : IsDigit(d[i])
        THEN [ok |-> TRUE,
              v |-> IF signed /\ Head(t) = "-" THEN 0 - DigitsValue(d)
                    ELSE DigitsValue(d)]
        ELSE [ok |-> FALSE, v |-> 0]

\* f"{n}" of an integer.
RECURSIVE NatText(_)
NatText(n) ==
    IF n < 10 THEN <<Digits[n + 1]>>
    ELSE NatText(n \div 10) \o <<Digits[(n % 10) + 1]>>

IntText(n) == IF n < 0 THEN <<"-">> \o NatText(0 - n) ELSE NatText(n)

\* The index of the last ":" of x, 0 when it has none.
LastColon(x) ==
    IF \E i \in DOMAIN x : x[i] = ":"
    THEN CHOOSE i \in DOMAIN x :
            x[i] = ":" /\ \A j \in DOMAIN x : x[j] = ":" => j <= i
    ELSE 0

\* bind_endpoint_for_public
BindEndpointForPublic(e) ==
    IF ~StartsWith(e, TcpPrefix) THEN e
    ELSE LET hostPort == SubSeq(e, Len(TcpPrefix) + 1, Len(e))
             c == LastColon(hostPort)
         IN  IF c = 0 THEN e
             ELSE LET host == SubSeq(hostPort, 1, c - 1)
                      port == SubSeq(hostPort, c + 1, Len(hostPort))
                      n == PyInt(port)
                  IN  IF ~n.ok THEN e
                      ELSE IF host \in {<<"*">>, AnyHost} THEN e
                      ELSE TcpPrefix \o <<"*", ":">> \o IntText(n.v)

\* The endpoints given to the function: a scheme or none, then up to MaxRest
\* characters; and the endpoints the package itself suggests.
EndpointChars == {"h", "*", ":", "5", "0", "-"}

Rests(len) == UNION {[1..n -> EndpointChars] : n \in 0..len}

LocalTcp ==
    TcpPrefix \o <<"1", "2", "7", ".", "0", ".", "0", ".", "1", ":",
                   "5", "5", "5", "6">>

EndpointInputs(len) ==
    {p \o r : p \in {TcpPrefix, IpcPrefix, <<>>}, r \in Rests(len)}
    \cup {LocalTcp, TcpPrefix \o AnyHost \o <<":", "5", "5", "5", "6">>,
          TcpPrefix \o <<"h", ":", " ", "8", "0">>,
          TcpPrefix \o <<":", "5", "5", "5", "6">>}

\* epc is the stage, eIn the endpoint given, eOut the results of the
\* applications of bind_endpoint_for_public made so far.
VARIABLES epc, eIn, eOut

evars == <<epc, eIn, eOut>>

EndpointIdle == epc = "idle" /\ eIn = <<>> /\ eOut = <<>>

EndpointInit == epc = "given" /\ eIn \in EndpointInputs(MaxRest) /\ eOut = <<>>

\* bind_endpoint_for_public(endpoint)
Resolve ==
    /\ epc = "given"
    /\ eOut' = <<BindEndpointForPublic(eIn)>>
    /\ epc' = "resolved"
    /\ eIn' = eIn

\* bind_endpoint_for_public of the result.
ResolveAgain ==
    /\ epc = "resolved"
    /\ eOut' = Append(eOut, BindEndpointForPublic(eOut[1]))
    /\ epc' = "again"
    /\ eIn' = eIn

EndpointNext == Resolve \/ ResolveAgain

(***************************************************************************)
(* ReceiverWidget: the Start and Stop buttons, the QThread of each         *)
(* listener and the calls the GUI thread makes.  gpc is the position of    *)
(* the GUI thread, btnStart and btnStop the enabled state of the buttons,  *)
(* wWorker the session in _worker (0 for None), thr the state of each      *)
(* session's QThread, quit whether its event loop was told to exit, and    *)
(* direct the slots that ran inside the call that emitted their signal.    *)
(***************************************************************************)
VARIABLES gpc, btnStart, btnStop, wWorker, thr, quit, direct

wvars == <<gpc, btnStart, btnStop, wWorker, thr, quit, direct>>

\* ReceiverWidget.__init__
WidgetInit ==
    /\ gpc = "ready"
    /\ btnStart = TRUE
    /\ btnStop = FALSE
    /\ wWorker = 0
    /\ thr = [s \in Sessions |-> "none"]
    /\ quit = [s \in Sessions |-> FALSE]
    /\ direct = <<>>

\* The session the next click on Start creates.
Fresh(s) == pc[s] = "none" /\ \A t \in Sessions : t < s => pc[t] # "none"

\* _on_start with text e in the endpoint field and public access off: a new
\* thread and a new listener moved to it, the buttons switched, the thread
\* started.
OnStart(e) ==
    /\ gpc = "ready"
    /\ btnStart
    /\ \E s \in Sessions :
          /\ Fresh(s)
          /\ Construct(s, e)
          /\ wWorker' = s
          /\ thr' = [thr EXCEPT ![s] = "started"]
    /\ btnStart' = FALSE
    /\ btnStop' = TRUE
    /\ UNCHANGED <<gpc, quit, direct>>

\* The new thread runs: its started signal calls worker.start() in it.
ThreadBegin(s) ==
    /\ thr[s] = "started"
    /\ StartCall(s)
    /\ thr' = [thr EXCEPT ![s] = "start"]
    /\ UNCHANGED <<gpc, btnStart, btnStop, wWorker, quit, direct>>

\* start() runs in the worker thread; the slots of its signals live in the
\* GUI thread, so its emissions are queued to that thread.
WorkerRun(s) ==
    /\ thr[s] = "start"
    /\ WorkerStep(s)
    /\ UNCHANGED wvars

\* start() has returned: the thread enters its event loop.
ThreadExec(s) ==
    /\ thr[s] = "start"
    /\ pc[s] = "returned"
    /\ thr' = [thr EXCEPT ![s] = "exec"]
    /\ UNCHANGED <<gpc, btnStart, btnStop, wWorker, quit, direct, lvars>>

\* The event loop exits once quit() was called, and the thread finishes.
ThreadFinish(s) ==
    /\ thr[s] = "exec"
    /\ quit[s]
    /\ thr' = [thr EXCEPT ![s] = "finished"]
    /\ UNCHANGED <<gpc, btnStart, btnStop, wWorker, quit, direct, lvars>>

\* _on_stop, lines 84-88: worker.stop() called in the GUI thread, where the
\* status slot lives, so that the slot runs inside stop(); then quit(), and
\* the GUI thread waits for the thread.
OnStop ==
    /\ gpc = "ready"
    /\ btnStop
    /\ wWorker # 0
    /\ Stop(wWorker)
    /\ direct' = Append(direct, Status("Stopping listener..."))
    /\ quit' = [quit EXCEPT ![wWorker] = TRUE]
    /\ gpc' = "wait"
    /\ UNCHANGED <<btnStart, btnStop, wWorker, thr>>

\* _on_stop, lines 88-90: wait() returns when the thread has finished.
OnStopReturn ==
    /\ gpc = "wait"
    /\ thr[wWorker] = "finished"
    /\ btnStart' = TRUE
    /\ btnStop' = FALSE
    /\ gpc' = "ready"
    /\ UNCHANGED <<wWorker, thr, quit, direct, lvars>>

WidgetNext ==
    \/ \E e \in Endpoints : OnStart(e)
    \/ OnStop
    \/ OnStopReturn
    \/ \E s \in Sessions :
          ThreadBegin(s) \/ WorkerRun(s) \/ ThreadExec(s) \/ ThreadFinish(s)
    \/ \E e \in Endpoints : PeerSend(e, GoodFrame) /\ UNCHANGED wvars

(***************************************************************************)
(* ReceiverWidget: the endpoint field, the public-access box and the       *)
(* endpoint _on_start hands to the listener.  fEnv is the platform and the *)
(* preferred address of the host, fText the text of endpoint_edit, fPublic *)
(* whether public_access is checked, fLastAuto the field                   *)
(* _last_auto_endpoint, fHanded the endpoint given to ZMQImageListener,    *)
(* fBound the listener's _endpoint, and fpc the stage: the field as the    *)
(* widget made it, as the user typed it, or after Start.                   *)
(***************************************************************************)
IpcDefault ==
    <<"i", "p", "c", ":", "/", "/", "/", "t", "m", "p", "/", "n", "a", "p",
      "a", "r", "i", "_", "s", "t", "r", "e", "a", "m", ".", "s", "o", "c",
      "k">>

\* DEFAULT_TCP_PORT, as written by f"{DEFAULT_TCP_PORT}"
DefaultPort == <<"5", "5", "5", "6">>

Loopback == <<"1", "2", "7", ".", "0", ".", "0", ".", "1">>
LanAddress == <<"1", "0", ".", "0", ".", "0", ".", "5">>

\* os.name and the result of _preferred_ip on the hosts considered.
Envs == [os : {"posix", "nt"}, ip : {Loopback, LanAddress}]

\* default_endpoint(public)
DefaultEndpoint(public, env) ==
    IF public THEN TcpPrefix \o env.ip \o <<":">> \o DefaultPort
    ELSE IF env.os = "nt" THEN TcpPrefix \o Loopback \o <<":">> \o DefaultPort
    ELSE IpcDefault

\* A widget that binds whatever non-TCP text the field holds.
ResolveEndpointForWorker_NoFallback(public, text, env) ==
    [bind |-> IF public THEN BindEndpointForPublic(text) ELSE text,
     fallback |-> FALSE]

\* _resolve_endpoint_for_worker: the endpoint to bind, and whether the
\* field and _last_auto_endpoint are set to the public default.
ResolveEndpointForWorker(public, text, env) ==
    IF ~public THEN [bind |-> text, fallback |-> FALSE]
    ELSE IF StartsWith(text, TcpPrefix)
    THEN [bind |-> BindEndpointForPublic(text), fallback |-> FALSE]
    ELSE [bind |-> BindEndpointForPublic(DefaultEndpoint(TRUE, env)),
          fallback |-> TRUE]

\* The texts a user types: a scheme or none, then up to MaxField
\* characters; and some longer ones, with and without blanks around.
FieldTexts(len) ==
    {p \o r : p \in {TcpPrefix, IpcPrefix, <<>>}, r \in Rests(len)}
    \cup {LocalTcp, <<" ">> \o LocalTcp \o <<" ">>,
          TcpPrefix \o AnyHost \o <<":">> \o DefaultPort,
          TcpPrefix \o <<"h", ":", "0", "0", "8", "0">>,
          <<" ">> \o IpcDefault, <<" ", " ">>}

VARIABLES fpc, fEnv, fText, fPublic, fLastAuto, fHanded, fBound

fvars == <<fpc, fEnv, fText, fPublic, fLastAuto, fHanded, fBound>>

\* In the runs that are not about the field.
FieldIdle ==
    /\ fpc = "idle"
    /\ fEnv = [os |-> "posix", ip |-> Loopback]
    /\ fText = <<>>
    /\ fPublic = FALSE
    /\ fLastAuto = <<>>
    /\ fHanded = <<>>
    /\ fBound = <<>>

\* ReceiverWidget.__init__, lines 36-39.
FieldInit ==
    /\ fpc = "made"
    /\ fEnv \in Envs
    /\ fText = DefaultEndpoint(FALSE, fEnv)
    /\ fPublic = FALSE
    /\ fLastAuto = DefaultEndpoint(FALSE, fEnv)
    /\ fHanded = <<>>
    /\ fBound = <<>>

\* The user replaces the text of the field.
Edit(t) ==
    /\ fpc = "made"
    /\ fText' = t
    /\ fpc' = "typed"
    /\ UNCHANGED <<fEnv, fPublic, fLastAuto, fHanded, fBound>>

\* _on_public_toggled
OnPublicToggled ==
    /\ fpc \in {"made", "typed"}
    /\ fPublic' = ~fPublic
    /\ LET suggested == DefaultEndpoint(fPublic', fEnv)
       IN  /\ fText' = IF Strip(fText) = fLastAuto THEN suggested ELSE fText
           /\ fLastAuto' = suggested
    /\ UNCHANGED <<fpc, fEnv, fHanded, fBound>>

\* _on_start, lines 68-71: the stripped text is resolved and given to a
\* new ZMQImageListener, which takes its default for an empty endpoint.
OnStartField ==
    /\ fpc \in {"made", "typed"}
    /\ LET r == ResolveEndpointForWorker(fPublic, Strip(fText), fEnv)
       IN  /\ fHanded' = r.bind
           /\ fBound' = IF r.bind = <<>> THEN DefaultEndpoint(FALSE, fEnv)
                        ELSE r.bind
           /\ fText' = IF r.fallback THEN DefaultEndpoint(TRUE, fEnv)
                       ELSE fText
           /\ fLastAuto' = IF r.fallback THEN DefaultEndpoint(TRUE, fEnv)
                           ELSE fLastAuto
    /\ fpc' = "started"
    /\ UNCHANGED <<fEnv, fPublic>>

FieldNext ==
    \/ fpc = "made" /\ \E t \in FieldTexts(MaxField) : Edit(t)
    \/ OnPublicToggled
    \/ OnStartField

(***************************************************************************)
(* Specifications.                                                         *)
(***************************************************************************)
vars == <<lvars, cvars, svars, evars, wvars, fvars>>

Init ==
    ListenerInit /\ CodecIdle /\ SenderIdle /\ EndpointIdle /\ WidgetInit
    /\ FieldIdle

Next == ListenerNext /\ UNCHANGED <<cvars, svars, evars, wvars, fvars>>

\* One listener session with its peers.
Spec == Init /\ [][Next]_vars

PairStep == PairNext /\ UNCHANGED <<cvars, svars, evars, wvars, fvars>>

\* Two listener sessions.
PairSpec == Init /\ [][PairStep]_vars

\* The codec alone.
CodecStart ==
    ListenerInit /\ CodecInit /\ SenderIdle /\ EndpointIdle /\ WidgetInit
    /\ FieldIdle

CodecStep == CodecNext /\ UNCHANGED <<lvars, svars, evars, wvars, fvars>>

CodecSpec == CodecStart /\ [][CodecStep]_vars

\* The sender alone.
SenderStart ==
    ListenerInit /\ CodecIdle /\ SenderInit /\ EndpointIdle /\ WidgetInit
    /\ FieldIdle

SenderStep == SenderNext /\ UNCHANGED <<lvars, cvars, evars, wvars, fvars>>

SenderSpec == SenderStart /\ [][SenderStep]_vars

\* A sender and one listener session.
LinkStep == LinkNext /\ UNCHANGED <<cvars, evars, wvars, fvars>>

LinkSpec == Init /\ [][LinkStep]_vars

\* Endpoint resolution alone.
EndpointStart ==
    ListenerInit /\ CodecIdle /\ SenderIdle /\ EndpointInit /\ WidgetInit
    /\ FieldIdle

EndpointStep == EndpointNext /\ UNCHANGED <<lvars, cvars, svars, wvars, fvars>>

EndpointSpec == EndpointStart /\ [][EndpointStep]_vars

\* The endpoint field of the widget.
FieldStart ==
    /\ ListenerInit /\ CodecIdle /\ SenderIdle /\ EndpointIdle /\ WidgetInit
    /\ FieldInit

FieldStep == FieldNext /\ UNCHANGED <<lvars, cvars, svars, evars, wvars>>

FieldSpec == FieldStart /\ [][FieldStep]_vars

\* The widget with the listeners it starts.
WidgetStep == WidgetNext /\ UNCHANGED <<cvars, svars, evars, fvars>>

WidgetSpec == Init /\ [][WidgetStep]_vars

(***************************************************************************)
(* Properties.                                                             *)
(***************************************************************************)

\* C1: once stop() has been called while start() runs, the poll loop begins
\* at most one further tick (and start() then returns).
C1_StopEndsLoop == \A s \in Sessions : stopped[s] => ticks[s] <= 1

\* C2: whenever start() has returned, by whichever path, the session holds
\* no socket: _sock and _ctx are None and nothing of it is bound.
C2_ReturnedReleased ==
    \A s \in Sessions :
        pc[s] = "returned" =>
            /\ sock[s] = None
            /\ ctx[s] = None
            /\ \A e \in Endpoints : s \notin BoundAt(e)

\* start() has returned after the session was bound and listening.
C2_Witness ==
    \E s \in Sessions :
        /\ pc[s] = "returned"
        /\ \E i \in DOMAIN log[s] :
              log[s][i] = Status("Listening on " \o endpoint[s])

C3_Inv ==
    /\ \A e \in Endpoints : Cardinality(BoundAt(e)) <= 1
    /\ \A s \in Sessions : pc[s] \in Polling => sock[s] = "bound"

C3_Step ==
    \A s \in Sessions :
        /\ \A t \in BoundAt(endpoint[s]) \ {s} :
              (pc[s] = "bind" /\ pc'[s] # "bind") =>
                  /\ pc'[s] = "except"
                  /\ sock'[s] # "bound"
                  /\ running'[s] = running[s]
                  /\ pc'[t] = pc[t]
                  /\ sock'[t] = "bound"
                  /\ log'[t] = log[t]
                  /\ wire' = wire
        /\ (pc[s] = "except" /\ pc'[s] # "except") =>
              /\ pc'[s] = "teardown"
              /\ log'[s] = Append(log[s], Error(exc[s]))
        /\ (pc[s] = "teardown" /\ pc'[s] # "teardown") => pc'[s] = "returned"

WellFormed(f) ==
    /\ f.parts = 2
    /\ f.header.json
    /\ RequiredFields \subseteq f.header.keys
    /\ f.header.dtype \in DTypes
    /\ f.header.order \in {"C", "F"}
    /\ \A i \in DOMAIN f.header.shape : f.header.shape[i] > 0
    /\ Len(f.payload) = Prod(f.header.shape) * Itemsize(f.header.dtype)

DecodeErrors ==
    {"ValueError", "JSONDecodeError", "TypeError", "KeyError('shape')",
     "KeyError('dtype')"}

\* C4: a frame that fails to decode is reported with exactly one emission on
\* the error signal and none on the data signal, and the session goes on
\* polling with its socket; a well-formed frame is emitted on the data
\* signal, whatever came before it.
C4_BadFrameContinues ==
    [][\A s \in Sessions :
          (pc[s] = "decode" /\ pc'[s] # "decode") =>
              /\ pc'[s] = "loop"
              /\ sock'[s] = sock[s]
              /\ running'[s] = running[s]
              /\ ~DecodeFrame(cur[s]).ok =>
                    \E t \in DecodeErrors :
                        log'[s] = Append(log[s], Error(t))
              /\ WellFormed(cur[s]) =>
                    /\ Len(log'[s]) = Len(log[s]) + 1
                    /\ log'[s][Len(log'[s])].k = "data"
                    /\ log'[s][Len(log'[s])].meta = cur[s].header]_vars

\* A polling session has emitted a frame after it reported a decode error.
C4_Witness ==
    \E s \in Sessions :
        /\ pc[s] \in Polling
        /\ \E i, j \in DOMAIN log[s] :
              /\ i < j
              /\ log[s][i].k = "error"
              /\ log[s][i].text \in DecodeErrors
              /\ log[s][j].k = "data"

\* C5: decoding the frame the sender makes of an array and display options
\* gives the array's shape, dtype and elements, and a header holding every
\* option given, with its value.
C5_RoundTrip ==
    (cpc = "decoded" /\ cSrc = "sender") =>
        /\ cOut.ok
        /\ cOut.shape = cArr.shape
        /\ cOut.dtype = cArr.dtype
        /\ cOut.data = cArr.data
        /\ cFrame.header.is_labels = cOpts.is_labels
        /\ \A f \in DOMAIN cOpts.opt :
              /\ f \in cFrame.header.keys
              /\ PyEq(cFrame.header.opt[f], cOpts.opt[f])

\* A column-major array with two axes longer than 1, sent with every
\* display option, has been decoded.
C5_Witness ==
    /\ cpc = "decoded"
    /\ cSrc = "sender"
    /\ cArr.layout = "F"
    /\ Cardinality(NonUnitDims(cArr.shape)) >= 2
    /\ DOMAIN cOpts.opt = OptFields

\* C6: for a header with its required fields, a known dtype and a known
\* order, decoding raises exactly when the payload length differs from
\* product(shape) * itemsize(dtype).
C6_RaisesIffLengthDiffers ==
    (/\ cpc = "decoded"
     /\ cFrame.parts = 2
     /\ cFrame.header.json
     /\ RequiredFields \subseteq cFrame.header.keys
     /\ cFrame.header.dtype \in DTypes
     /\ cFrame.header.order \in {"C", "F"}) =>
        (~cOut.ok <=>
            Len(cFrame.payload) #
                Prod(cFrame.header.shape) * Itemsize(cFrame.header.dtype))

\* A header as the data model requires it: shape, dtype and order present,
\* shape a non-empty sequence of positive integers.
ValidHeader(h) ==
    /\ h.json
    /\ RequiredFields \subseteq h.keys
    /\ Len(h.shape) >= 1
    /\ \A i \in DOMAIN h.shape : h.shape[i] > 0

\* C7: no frame whose header lacks a required field, or whose shape is empty
\* or holds an integer that is not positive, is emitted on the data signal.
C7_InvalidHeaderNeverEmitted ==
    \A s \in Sessions :
        \A i \in DOMAIN log[s] :
            log[s][i].k = "data" => ValidHeader(log[s][i].meta)

\* C8: flatten returns exactly one entry for every array-like leaf of a
\* structure of dicts and lists, under the leaf's path, in traversal order,
\* and nothing else.
C8_FlattenExact ==
    spc = "flattened" => sQueue = LeafEntries(sName, sVal)

\* Whether every element of the list or tuple x is an array.
ArrayElements(x) ==
    /\ x.t \in {"list", "tuple"}
    /\ x.items # <<>>
    /\ \A i \in DOMAIN x.items : x.items[i].t = "nd"

\* C9: send() of a list or tuple of k arrays transmits k frames, the i-th
\* being element i under the name base[i].
C9_SequencePerElement ==
    (spc \in {"done", "raised"} /\ ArrayElements(sVal)) =>
        /\ spc = "done"
        /\ Len(sSent) = Len(sVal.items)
        /\ \A i \in DOMAIN sVal.items :
              sSent[i] =
                  SendNumpy(sVal.items[i].arr,
                            Named(Base \o "[" \o ToString(i - 1) \o "]"))

\* Whether x is a non-empty list of Python numbers, or of such lists of one
\* shape.
RECURSIVE NumberList(_)
NumberList(x) ==
    /\ x.t = "list"
    /\ x.items # <<>>
    /\ \A i \in DOMAIN x.items :
          x.items[i].t = "int" \/ NumberList(x.items[i])
    /\ NpAsarray(x).ok

\* C10: send() of a list of numbers transmits it as one dense array.
C10_NumberListSent ==
    (spc \in {"done", "raised"} /\ NumberList(sVal)) =>
        /\ spc = "done"
        /\ Len(sSent) = 1
        /\ sSent[1] = SendNumpy(NpAsarray(sVal).arr, Named(Base))

\* Whether two of the entries have one path.
Collide(entries) ==
    \E i, j \in DOMAIN entries : i # j /\ entries[i].path = entries[j].path

\* C11: when two array-like leaves of a structure have the same qualified
\* path, flattening it is an error: neither retrieve_array_like nor send()
\* goes on with a merged result.
C11_CollisionIsError ==
    Collide(LeafEntries(Base, sVal)) =>
        spc \notin {"flattened", "sending", "done"}

\* The frame send() makes of an entry that can be coerced.
FrameOf(e) == SendNumpy(ToNumpy(e.obj).arr, Named(e.path))

\* C12: when send() of a structure ends and the k-th array-like leaf in
\* traversal order is the first that cannot be coerced, send() has raised
\* and has transmitted exactly the k-1 leaves before it, in order.
C12_FailingLeaf ==
    (IsStructure(sVal) /\ spc \in {"done", "raised"}) =>
        LET L == LeafEntries(Base, sVal)
            bad == {i \in DOMAIN L : ~ToNumpy(L[i].obj).ok}
        IN  bad # {} =>
               LET k == CHOOSE i \in bad : \A j \in bad : i <= j
               IN  /\ spc = "raised"
                   /\ sSent = [i \in 1..(k - 1) |-> FrameOf(L[i])]

\* C16: every frame the sender hands to the socket has a shape of at least
\* one axis, every axis positive, and a payload of product(shape) times
\* itemsize bytes.
C16_SentFramesWellShaped ==
    \A i \in DOMAIN sSent :
        LET f == sSent[i]
        IN  /\ Len(f.header.shape) >= 1
            /\ \A a \in DOMAIN f.header.shape : f.header.shape[a] > 0
            /\ Len(f.payload) = Prod(f.header.shape) * Itemsize(f.header.dtype)

\* C17: once start() has returned after teardown (the session has reported
\* "Listener stopped."), no later call of start() or stop() makes the
\* session hold a bound socket or poll again.
C17_ClosedIsTerminal ==
    \A s \in Sessions :
        (\E i \in DOMAIN log[s] : log[s][i] = Status("Listener stopped.")) =>
            /\ sock[s] # "bound"
            /\ pc[s] \notin Polling

\* The errors zmq raises from poll and from recv_multipart.
TransportErrors ==
    {"ZMQError('Context was terminated')",
     "ZMQError('Socket operation on non-socket')"}

\* C18: a transport error of the poll step or of the receive step ends the
\* loop: right after the session has reported one, start() is on its way
\* into teardown, not back in the poll loop.
C18_TransportErrorIsFatal ==
    \A s \in Sessions :
        (/\ log[s] # <<>>
         /\ log[s][Len(log[s])].k = "error"
         /\ log[s][Len(log[s])].text \in TransportErrors) =>
            pc[s] = "teardown"

\* tcp://host:port with a host that is not empty and a port written in
\* digits alone.
WellFormedTcp(e) ==
    /\ StartsWith(e, TcpPrefix)
    /\ LET hostPort == SubSeq(e, Len(TcpPrefix) + 1, Len(e))
           c == LastColon(hostPort)
       IN  /\ c > 1
           /\ c < Len(hostPort)
           /\ \A i \in (c + 1)..Len(hostPort) : IsDigit(hostPort[i])

HostOf(e) ==
    LET hostPort == SubSeq(e, Len(TcpPrefix) + 1, Len(e))
    IN  SubSeq(hostPort, 1, LastColon(hostPort) - 1)

PortOf(e) ==
    LET hostPort == SubSeq(e, Len(TcpPrefix) + 1, Len(e))
    IN  DigitsValue(SubSeq(hostPort, LastColon(hostPort) + 1, Len(hostPort)))

\* C15: bind_endpoint_for_public turns a well-formed tcp://host:port whose
\* host is no wildcard into tcp://*:port with the same port, returns every
\* other endpoint (not tcp, wildcard host, malformed) as it was given, and a
\* second application changes nothing.
C15_PublicBind ==
    /\ epc \in {"resolved", "again"} =>
          IF WellFormedTcp(eIn) /\ HostOf(eIn) \notin {<<"*">>, AnyHost}
          THEN eOut[1] = TcpPrefix \o <<"*", ":">> \o NatText(PortOf(eIn))
          ELSE eOut[1] = eIn
    /\ epc = "again" => eOut[2] = eOut[1]

\* The emissions of session s on the data signal, in order.
DataLog(s) == SelectSeq(log[s], LAMBDA e : e.k = "data")

\* What the listener emits for frame f.
Emitted(f) == Data(DecodeFrame(f), f.header)

\* Whether d is made of entries of sent taken in increasing positions, each
\* position once.
InOrder(d, sent) ==
    \E pos \in [DOMAIN d -> DOMAIN sent] :
        /\ \A i, j \in DOMAIN d : i < j => pos[i] < pos[j]
        /\ \A i \in DOMAIN d : d[i] = Emitted(sent[pos[i]])

\* The entries send() has to transmit for its argument.
ToSend ==
    IF IsStructure(sVal) THEN RetrieveArrayLike(Base, sVal)
    ELSE <<Entry(Base, sVal)>>

\* C13: the data emissions of the session are frames the sender
\* transmitted, in the order of transmission and each at most once; and the
\* frames of one send() call are transmitted in the order of the flattened
\* structure.
C13_FramesInOrder ==
    /\ InOrder(DataLog(1), sSent)
    /\ spc \in {"sending", "done", "raised"} =>
          LET n == Len(ToSend) - Len(sQueue)
          IN  /\ n <= Len(sSent)
              /\ \A i \in 1..n :
                    sSent[Len(sSent) - n + i] = FrameOf(ToSend[i])

\* The session has emitted two different frames, of which the second was
\* sent by a later send() call than the first.
C13_Witness ==
    /\ Len(DataLog(1)) >= 2
    /\ DataLog(1)[1] # DataLog(1)[2]
    /\ DataLog(1)[1].meta.opt["name"] = Str("array")
    /\ DataLog(1)[2].meta.opt["name"] = Str("array[0]")

\* C14: when a single 2-D uint8 array was sent with default options and the
\* polling session has taken it off the wire, the session has made exactly
\* one data emission: the array has the sent shape and dtype uint8, the
\* metadata has is_labels false and name "array".
C14_EndToEnd ==
    (/\ sVal.t = "nd" /\ Len(sVal.arr.shape) = 2 /\ sVal.arr.dtype = "uint8"
     /\ sName = None
     /\ spc = "done"
     /\ Len(sSent) = 1
     /\ endpoint[1] = SenderEndpoint
     /\ wire[SenderEndpoint] = <<>>
     /\ pc[1] \in {"loop", "poll"}) =>
        /\ Len(DataLog(1)) = 1
        /\ LET e == DataLog(1)[1]
           IN  /\ e.arr.ok
               /\ e.arr.shape = sVal.arr.shape
               /\ e.arr.dtype = "uint8"
               /\ e.meta.is_labels = FALSE
               /\ "name" \in DOMAIN e.meta.opt
               /\ e.meta.opt["name"] = Str("array")

\* The column-major 2-D array has been sent and emitted.
C14_Witness ==
    /\ sVal = NdValue(Img2D("F"))
    /\ spc = "done"
    /\ Len(sSent) = 1
    /\ pc[1] = "poll"
    /\ Len(DataLog(1)) = 1
    /\ DataLog(1)[1].arr.shape = <<2, 2>>

\* C19: no slot of a listener's signals runs synchronously inside a call of
\* start() or stop(): every notification is queued to the sink's thread.
C19_NoDirectDelivery == direct = <<>>

\* The GUI thread waits in _on_stop for a worker that polls with _running
\* set: only the waiting thread could clear the flag, so wait() never
\* returns.
Hung ==
    /\ gpc = "wait"
    /\ wWorker # 0
    /\ thr[wWorker] = "start"
    /\ pc[wWorker] \in Polling
    /\ running[wWorker]

\* C20: _on_stop always terminates; the Start button is enabled only while
\* no listener of the widget holds a bound socket, and at most one listener
\* of the widget is bound at a time.
C20_StopTerminates ==
    /\ ~Hung
    /\ (gpc = "ready" /\ btnStart) => \A s \in Sessions : sock[s] # "bound"
    /\ Cardinality({s \in Sessions : sock[s] = "bound"}) <= 1

\* Whether the current start() call of session s has reported that it
\* listens: the status is in the log with no "Listener stopped." after it.
Listening(s) ==
    \E j \in DOMAIN log[s] :
        /\ log[s][j] = Status("Listening on " \o endpoint[s])
        /\ \A k \in DOMAIN log[s] :
              k > j => log[s][k] # Status("Listener stopped.")

\* C21: a step of a session emits one notification at most; a frame is
\* emitted on the data signal only after this start() call has reported
\* "Listening on <endpoint>", which it does only with its socket bound;
\* start() returns exactly by emitting "Listener stopped." with the socket
\* closed, and outside start() nothing but the status of stop() is emitted.
C21_EmissionsBracketed ==
    [][\A s \in Sessions :
          /\ log'[s] # log[s] =>
                /\ Len(log'[s]) = Len(log[s]) + 1
                /\ SubSeq(log'[s], 1, Len(log[s])) = log[s]
                /\ LET e == log'[s][Len(log'[s])]
                   IN  /\ e.k = "data" => Listening(s) /\ sock[s] = "bound"
                       /\ e = Status("Listening on " \o endpoint[s]) =>
                             sock[s] = "bound" /\ pc[s] \in InStart
                       /\ e = Status("Listener stopped.") =>
                             /\ pc[s] \in InStart
                             /\ pc'[s] = "returned"
                             /\ sock'[s] = None
                       /\ e.k \in {"data", "error"} =>
                             pc[s] \in InStart /\ pc'[s] # "returned"
                       /\ pc[s] \notin InStart =>
                             e = Status("Stopping listener...")
          /\ (pc[s] # "returned" /\ pc'[s] = "returned") =>
                log'[s] = Append(log[s], Status("Listener stopped."))
      ]_vars

\* start() has returned after it listened, emitted a frame and reported a
\* decode error: "Listener stopped." is its last emission.
C21_Witness ==
    /\ pc[1] = "returned"
    /\ \E i, j, k \in DOMAIN log[1] :
          /\ i < j /\ j < k
          /\ log[1][i] = Status("Listening on " \o endpoint[1])
          /\ log[1][j].k = "data"
          /\ log[1][k].k = "error"
    /\ log[1][Len(log[1])] = Status("Listener stopped.")

\* C22, as stated: at Start with the public-access box checked the endpoint
\* handed to the listener starts with tcp://; a well-formed tcp endpoint in
\* the field is handed over as tcp://*:port and the field keeps its text; a
\* non-TCP text is replaced, in the field and in _last_auto_endpoint, by
\* the public default, handed over as tcp://*:5556; with the box unchecked
\* the field text is bound as it is.
C22_AsStated ==
    [][(fpc # "started" /\ fpc' = "started") =>
          IF fPublic
          THEN /\ StartsWith(fHanded', TcpPrefix)
               /\ WellFormedTcp(Strip(fText)) =>
                     /\ fHanded' = TcpPrefix \o <<"*", ":">>
                                      \o NatText(PortOf(Strip(fText)))
                     /\ fText' = fText
               /\ ~StartsWith(Strip(fText), TcpPrefix) =>
                     /\ fText' = DefaultEndpoint(TRUE, fEnv)
                     /\ fLastAuto' = DefaultEndpoint(TRUE, fEnv)
                     /\ fHanded' = TcpPrefix \o <<"*", ":">> \o DefaultPort
          ELSE fBound' = fText
      ]_vars

\* C22, amended: as stated, except that a well-formed tcp endpoint whose
\* host is * or 0.0.0.0 is handed over as written, and that with the box
\* unchecked the listener binds the field text without the blanks around
\* it, or its own default endpoint when nothing is left.
C22_PublicStart ==
    [][(fpc # "started" /\ fpc' = "started") =>
          LET t == Strip(fText)
          IN  IF fPublic
              THEN /\ StartsWith(fHanded', TcpPrefix)
                   /\ fBound' = fHanded'
                   /\ WellFormedTcp(t) =>
                         /\ fHanded' =
                               IF HostOf(t) \in {<<"*">>, AnyHost} THEN t
                               ELSE TcpPrefix \o <<"*", ":">>
                                       \o NatText(PortOf(t))
                         /\ fText' = fText
                         /\ fLastAuto' = fLastAuto
                   /\ ~StartsWith(t, TcpPrefix) =>
                         /\ fText' = DefaultEndpoint(TRUE, fEnv)
                         /\ fLastAuto' = DefaultEndpoint(TRUE, fEnv)
                         /\ fHanded' =
                               TcpPrefix \o <<"*", ":">> \o DefaultPort
              ELSE /\ fHanded' = t
                   /\ fBound' = IF t = <<>> THEN DefaultEndpoint(FALSE, fEnv)
                                ELSE t
                   /\ fText' = fText
                   /\ fLastAuto' = fLastAuto
      ]_vars

\* Start was clicked with the box checked and tcp://h:5 typed in the field:
\* the listener got tcp://*:5 and the field kept its text.
C22_Witness ==
    /\ fpc = "started"
    /\ fPublic
    /\ fText = TcpPrefix \o <<"h", ":", "5">>
    /\ fHanded = TcpPrefix \o <<"*", ":", "5">>
    /\ fBound = fHanded

====
